---- MODULE Spec2Model ----
(***************************************************************************)
(* A model of slurm_mcp: the SSH session manager (ssh_client.py), the      *)
(* SLURM command wrappers (slurm_commands.py) and the MCP tools with their *)
(* process-wide session globals (server.py).                               *)
(*                                                                         *)
(* Python objects live in heaps: objs maps the id of each live SSHClient   *)
(* to its fields, handles is the list of every paramiko.SSHClient that was *)
(* ever constructed.  A reference is an id, 0 standing for None.  Every    *)
(* method is an operator from the heaps (and the outcome the transport     *)
(* gives) to the new heaps, the exception raised and the transport calls   *)
(* made; every action is one whole call of a tool or of a method.          *)
(***************************************************************************)
EXTENDS Naturals, Sequences, FiniteSets, TLC

VARIABLES
    env,            \* os.environ, the variables server.py reads
    ssh_client,     \* server.ssh_client: id of an SSHClient, 0 = None
    slurm_client,   \* server.slurm_client: [ssh_client |-> id], id 0 = None
    objs,           \* heap of live SSHClient objects: id -> fields
    handles,        \* every paramiko.SSHClient constructed so far
    lib,            \* id of the SSHClient a direct caller of the library holds
    last,           \* the last call: its name, return value, exception, trace
    proc            \* the process: "running", or "exited" once the interpreter left

vars == <<env, ssh_client, slurm_client, objs, handles, lib, last, proc>>

(***************************************************************************)
(* Bounds of the model.                                                    *)
(***************************************************************************)
\* paramiko.SSHClient objects constructed in one run
MaxHandles == 2

(***************************************************************************)
(* Python values.                                                          *)
(***************************************************************************)
\* None where a string is expected (Optional[str]); also an unset variable
None == "<None>"

\* bool(s) of an Optional[str]: None and the empty string are falsy
Truthy(s) == s # None /\ s # ""

\* no exception
NoExc == [type |-> "", msg |-> ""]

ValueError_NoAuth ==
    [type |-> "ValueError", msg |-> "Either password or key_filename must be provided"]

RuntimeError_NotConnected ==
    [type |-> "RuntimeError", msg |-> "SSH client not connected. Call connect() first."]

ValueError_Int ==
    [type |-> "ValueError", msg |-> "invalid literal for int() with base 10"]

\* what paramiko's connect raises: no route or refused, rejected credentials,
\* no answer within the timeout
ConnectError(out) ==
    CASE out = "unreachable" -> [type |-> "NoValidConnectionsError", msg |-> "Unable to connect"]
      [] out = "auth"        -> [type |-> "AuthenticationException", msg |-> "Authentication failed."]
      [] out = "timeout"     -> [type |-> "socket.timeout", msg |-> "timed out"]

\* what exec_command, read() or decode() raise
ExecError(kind) ==
    CASE kind = "timeout" -> [type |-> "socket.timeout", msg |-> "timed out"]
      [] kind = "ssh"     -> [type |-> "SSHException", msg |-> "SSH session not active"]
      [] kind = "decode"  -> [type |-> "UnicodeDecodeError", msg |-> "invalid start byte"]

\* str(e)
Str(e) == e.msg

WhiteSpace == {" ", "\n", "\t"}

RECURSIVE LStrip(_)
LStrip(s) ==
    IF s # << >> /\ Head(s) \in WhiteSpace THEN LStrip(Tail(s)) ELSE s

RECURSIVE RStrip(_)
RStrip(s) ==
    IF s # << >> /\ s[Len(s)] \in WhiteSpace THEN RStrip(SubSeq(s, 1, Len(s) - 1)) ELSE s

\* str.strip() on a text held as a sequence of characters
Strip(s) == RStrip(LStrip(s))

RECURSIVE Join(_)
\* " ".join(cmd)
Join(cmd) ==
    IF cmd = << >> THEN ""
    ELSE IF Len(cmd) = 1 THEN cmd[1]
    ELSE cmd[1] \o " " \o Join(Tail(cmd))

(***************************************************************************)
(* The transport (paramiko), as far as the program observes it.            *)
(***************************************************************************)
ConnectOutcomes == {"ok", "unreachable", "auth", "timeout"}

RawStdout == {<<"\n">>, <<" ", "o", "\n">>}
RawStderr == {<<"e", " ", "r", "\n">>}
ExitCodes == {0, 1}

\* exec_command, the two reads and recv_exit_status either return the raw
\* triple or raise
ExecOutcomes ==
    [kind : {"returns"}, stdout : RawStdout, stderr : RawStderr, exit_code : ExitCodes]
    \cup [kind : {"timeout", "ssh", "decode"}, stdout : {<< >>}, stderr : {<< >>},
          exit_code : {0}]

\* what the transport does during one call of a tool: the connect, if one is
\* made, fails, or it succeeds and the command meets one of the outcomes above
Outcomes ==
    [connect : ConnectOutcomes \ {"ok"},
     exec : {[kind |-> "ssh", stdout |-> << >>, stderr |-> << >>, exit_code |-> 0]}]
    \cup [connect : {"ok"}, exec : ExecOutcomes]

\* a paramiko.SSHClient right after its construction
NewHandle == [connected |-> FALSE, closes |-> 0]

(***************************************************************************)
(* ssh_client.py                                                           *)
(***************************************************************************)
SSHClient_init(hostname, username, password, key_filename, port) ==
    [hostname |-> hostname, username |-> username, password |-> password,
     key_filename |-> key_filename, port |-> port, client |-> 0]

\* the connect timeout, 'timeout': 30
ConnectTimeout == 30

\* SSHClient.connect with the authentication check made after the transport
\* connected instead of before
SSHClient_connect_LateCheck(self, O, H, out) ==
    LET h   == Len(H) + 1
        O1  == [O EXCEPT ![self].client = h]
        H1  == Append(H, NewHandle)
        o   == O[self]
        kw  == [hostname |-> o.hostname, username |-> o.username,
                port |-> o.port, timeout |-> ConnectTimeout]
               @@ (IF Truthy(o.key_filename) THEN [key_filename |-> o.key_filename]
                   ELSE [password |-> o.password])
        call == [fn |-> "connect", h |-> h, kwargs |-> kw, out |-> out]
    IN  IF out # "ok"
        THEN [objs |-> O1, handles |-> H1, exc |-> ConnectError(out), calls |-> <<call>>]
        ELSE IF ~Truthy(o.key_filename) /\ ~Truthy(o.password)
        THEN [objs |-> O1, handles |-> [H1 EXCEPT ![h].connected = TRUE],
              exc |-> ValueError_NoAuth, calls |-> <<call>>]
        ELSE [objs |-> O1, handles |-> [H1 EXCEPT ![h].connected = TRUE],
              exc |-> NoExc, calls |-> <<call>>]

\* SSHClient.connect testing the password before the key file
SSHClient_connect_PasswordFirst(self, O, H, out) ==
    LET h   == Len(H) + 1
        O1  == [O EXCEPT ![self].client = h]
        H1  == Append(H, NewHandle)
        o   == O[self]
        kw0 == [hostname |-> o.hostname, username |-> o.username,
                port |-> o.port, timeout |-> ConnectTimeout]
        kw  == IF Truthy(o.password)
               THEN kw0 @@ [password |-> o.password]
               ELSE kw0 @@ [key_filename |-> o.key_filename]
        call == [fn |-> "connect", h |-> h, kwargs |-> kw, out |-> out]
    IN  IF ~Truthy(o.key_filename) /\ ~Truthy(o.password)
        THEN [objs |-> O1, handles |-> H1, exc |-> ValueError_NoAuth, calls |-> << >>]
        ELSE IF out = "ok"
        THEN [objs |-> O1, handles |-> [H1 EXCEPT ![h].connected = TRUE],
              exc |-> NoExc, calls |-> <<call>>]
        ELSE [objs |-> O1, handles |-> H1, exc |-> ConnectError(out), calls |-> <<call>>]

\* SSHClient.connect: the handle is stored in self.client first, then the
\* authentication method is chosen, then the transport connects; whatever is
\* raised is logged and raised again
SSHClient_connect(self, O, H, out) ==
    LET h   == Len(H) + 1
        O1  == [O EXCEPT ![self].client = h]
        H1  == Append(H, NewHandle)
        o   == O[self]
        kw0 == [hostname |-> o.hostname, username |-> o.username,
                port |-> o.port, timeout |-> ConnectTimeout]
        kw  == IF Truthy(o.key_filename)
               THEN kw0 @@ [key_filename |-> o.key_filename]
               ELSE kw0 @@ [password |-> o.password]
        call == [fn |-> "connect", h |-> h, kwargs |-> kw, out |-> out]
    IN  IF ~Truthy(o.key_filename) /\ ~Truthy(o.password)
        THEN [objs |-> O1, handles |-> H1, exc |-> ValueError_NoAuth, calls |-> << >>]
        ELSE IF out = "ok"
        THEN [objs |-> O1, handles |-> [H1 EXCEPT ![h].connected = TRUE],
              exc |-> NoExc, calls |-> <<call>>]
        ELSE [objs |-> O1, handles |-> H1, exc |-> ConnectError(out), calls |-> <<call>>]

\* SSHClient.disconnect without the reset of self.client
SSHClient_disconnect_KeepClient(self, O, H) ==
    LET h == O[self].client
    IN  IF h # 0
        THEN [objs |-> O,
              handles |-> [H EXCEPT ![h].closes = @ + 1, ![h].connected = FALSE],
              exc |-> NoExc, calls |-> <<[fn |-> "close", h |-> h]>>]
        ELSE [objs |-> O, handles |-> H, exc |-> NoExc, calls |-> << >>]

\* SSHClient.disconnect
SSHClient_disconnect(self, O, H) ==
    LET h == O[self].client
    IN  IF h # 0
        THEN [objs |-> [O EXCEPT ![self].client = 0],
              handles |-> [H EXCEPT ![h].closes = @ + 1, ![h].connected = FALSE],
              exc |-> NoExc, calls |-> <<[fn |-> "close", h |-> h]>>]
        ELSE [objs |-> O, handles |-> H, exc |-> NoExc, calls |-> << >>]

\* the command timeout, timeout: int = 30
CommandTimeout == 30

\* SSHClient.execute_command without the test of self.client: the call goes
\* to the transport, which has nothing to run it on
SSHClient_execute_command_NoGuard(self, O, H, command, out) ==
    LET h    == O[self].client
        eff  == IF h = 0 \/ ~H[h].connected
                THEN [kind |-> "ssh", stdout |-> << >>, stderr |-> << >>, exit_code |-> 0]
                ELSE out
        call == [fn |-> "exec_command", h |-> h, command |-> command,
                 timeout |-> CommandTimeout, out |-> eff]
    IN  IF eff.kind = "returns"
        THEN [exc |-> NoExc, calls |-> <<call>>,
              stdout |-> Strip(eff.stdout), stderr |-> Strip(eff.stderr),
              exit_code |-> eff.exit_code]
        ELSE [exc |-> ExecError(eff.kind), calls |-> <<call>>,
              stdout |-> << >>, stderr |-> << >>, exit_code |-> 0]

\* SSHClient.execute_command: a handle that never connected has no transport,
\* exec_command on it raises
SSHClient_execute_command(self, O, H, command, out) ==
    LET h    == O[self].client
        eff  == IF h # 0 /\ ~H[h].connected
                THEN [kind |-> "ssh", stdout |-> << >>, stderr |-> << >>, exit_code |-> 0]
                ELSE out
        call == [fn |-> "exec_command", h |-> h, command |-> command,
                 timeout |-> CommandTimeout, out |-> eff]
    IN  IF h = 0
        THEN [exc |-> RuntimeError_NotConnected, calls |-> << >>,
              stdout |-> << >>, stderr |-> << >>, exit_code |-> 0]
        ELSE IF eff.kind = "returns"
        THEN [exc |-> NoExc, calls |-> <<call>>,
              stdout |-> Strip(eff.stdout), stderr |-> Strip(eff.stderr),
              exit_code |-> eff.exit_code]
        ELSE [exc |-> ExecError(eff.kind), calls |-> <<call>>,
              stdout |-> << >>, stderr |-> << >>, exit_code |-> 0]

(***************************************************************************)
(* slurm_commands.py                                                       *)
(***************************************************************************)
SlurmClient_init(ssh) == [ssh_client |-> ssh]

\* the double quote the format string is wrapped in
Quote == "\""

\* -o "<format>": the caller's format if truthy, the default otherwise
SqueueDefaultFormat == "\"%.18i %.9P %.8j %.8u %.2t %.10M %.6D %R\""
SinfoDefaultFormat  == "\"%.20P %.5a %.10l %.6D %.6t %.14N\""
SacctDefaultFormat  == "JobID,JobName,Partition,Account,AllocCPUS,State,ExitCode"

\* cmd.extend([flag, value]) under "if value:"
Opt(flag, value) == IF Truthy(value) THEN <<flag, value>> ELSE << >>

squeue_command(a) ==
    Join(<<"squeue">>
         \o (IF Truthy(a.format_str)
             THEN <<"-o", Quote \o a.format_str \o Quote>>
             ELSE <<"-o", SqueueDefaultFormat>>)
         \o Opt("-u", a.user) \o Opt("-j", a.job_id) \o Opt("-p", a.partition))

sinfo_command(a) ==
    Join(<<"sinfo">>
         \o (IF Truthy(a.format_str)
             THEN <<"-o", Quote \o a.format_str \o Quote>>
             ELSE <<"-o", SinfoDefaultFormat>>)
         \o Opt("-p", a.partition) \o Opt("-n", a.nodes))

\* sacct with the user filter ahead of the job filter, the order of squeue
sacct_command_UserFirst(a) ==
    Join(<<"sacct">>
         \o (IF Truthy(a.format_str)
             THEN <<"--format", a.format_str>>
             ELSE <<"--format", SacctDefaultFormat>>)
         \o Opt("-u", a.user) \o Opt("-j", a.job_id)
         \o Opt("-S", a.start_time) \o Opt("-E", a.end_time))

sacct_command(a) ==
    Join(<<"sacct">>
         \o (IF Truthy(a.format_str)
             THEN <<"--format", a.format_str>>
             ELSE <<"--format", SacctDefaultFormat>>)
         \o Opt("-j", a.job_id) \o Opt("-u", a.user)
         \o Opt("-S", a.start_time) \o Opt("-E", a.end_time))

scontrol_show_job_command(a) == "scontrol show job " \o a.job_id

\* scontrol_show_node testing the name against None only
scontrol_show_node_command_IsNone(a) ==
    IF a.node_name # None THEN "scontrol show node " \o a.node_name
    ELSE "scontrol show nodes"

scontrol_show_node_command(a) ==
    IF Truthy(a.node_name) THEN "scontrol show node " \o a.node_name
    ELSE "scontrol show nodes"

scancel_command(a) == "scancel " \o a.job_id

\* the command each SlurmClient method builds
CommandOf(op, a) ==
    CASE op = "squeue"             -> squeue_command(a)
      [] op = "sinfo"              -> sinfo_command(a)
      [] op = "sacct"              -> sacct_command(a)
      [] op = "scontrol_show_job"  -> scontrol_show_job_command(a)
      [] op = "scontrol_show_node" -> scontrol_show_node_command(a)
      [] op = "scancel"            -> scancel_command(a)

\* the tail every SlurmClient method shares: execute the command on the
\* wrapped SSHClient and wrap the triple; an exception passes through
SlurmClient_method(op, self, a, O, H, out) ==
    LET command == CommandOf(op, a)
        r == SSHClient_execute_command(self.ssh_client, O, H, command, out)
    IN  [exc |-> r.exc, calls |-> r.calls,
         result |-> [command |-> command, stdout |-> r.stdout, stderr |-> r.stderr,
                     exit_code |-> r.exit_code, success |-> (r.exit_code = 0)]]

(***************************************************************************)
(* server.py                                                               *)
(***************************************************************************)
\* os.getenv(key, default)
Getenv(E, key, default) == IF E[key] = None THEN default ELSE E[key]

\* os.path.expanduser("~/.ssh/id_rsa")
ExpandUser(path) == IF path = "~/.ssh/id_rsa" THEN "/home/me/.ssh/id_rsa" ELSE path

\* the strings int() accepts, among those the environment may hold
IsInt(s) == s \in {"22", "2222"}

\* int(s)
Int(s) == CASE s = "22" -> 22 [] s = "2222" -> 2222

\* no configuration was read
NoConfig == [hostname |-> None, username |-> None, password |-> None,
             key_filename |-> None, port |-> 0]

\* get_connection_config: every field is read from the environment now
get_connection_config(E) ==
    LET port == Getenv(E, "SLURM_PORT", "22")
    IN  IF ~IsInt(port) THEN [exc |-> ValueError_Int, config |-> NoConfig]
        ELSE [exc |-> NoExc,
              config |->
                [hostname |-> Getenv(E, "SLURM_HOST", "localhost"),
                 username |-> Getenv(E, "SLURM_USER", Getenv(E, "USER", "user")),
                 password |-> E["SLURM_PASSWORD"],
                 key_filename |-> Getenv(E, "SLURM_KEY_FILE", ExpandUser("~/.ssh/id_rsa")),
                 port |-> Int(port)]]

\* the id a newly constructed object gets
NewId(O) == CHOOSE i \in 1..(Cardinality(DOMAIN O) + 1) : i \notin DOMAIN O

\* the process-wide state a tool works on
World == [ssh_client |-> ssh_client, slurm_client |-> slurm_client,
          objs |-> objs, handles |-> handles]

\* slurm_client = None
NoSlurm == SlurmClient_init(0)

\* ensure_connection without the test of the globals: every call constructs
\* and connects a new SSHClient
ensure_connection_Always(W, E, out) ==
    LET c    == get_connection_config(E)
        id   == NewId(W.objs)
        cfg  == c.config
        O1   == W.objs @@ (id :> SSHClient_init(cfg.hostname, cfg.username,
                                cfg.password, cfg.key_filename, cfg.port))
        r    == SSHClient_connect(id, O1, W.handles, out)
        W1   == [W EXCEPT !.ssh_client = id, !.objs = r.objs, !.handles = r.handles]
    IN  IF c.exc # NoExc
        THEN [w |-> W, exc |-> c.exc, calls |-> << >>, config |-> NoConfig,
              connect |-> "none", client |-> W.slurm_client]
        ELSE IF r.exc # NoExc
        THEN [w |-> W1, exc |-> r.exc, calls |-> r.calls, config |-> cfg,
              connect |-> "failed", client |-> W.slurm_client]
        ELSE [w |-> [W1 EXCEPT !.slurm_client = SlurmClient_init(id)],
              exc |-> NoExc, calls |-> r.calls, config |-> cfg,
              connect |-> "ok", client |-> SlurmClient_init(id)]

\* ensure_connection that, holding a session, copies the host now in the
\* environment into it
ensure_connection_Refresh(W, E, out) ==
    IF W.ssh_client = 0 \/ W.slurm_client = NoSlurm
    THEN ensure_connection_Always(W, E, out)
    ELSE [w |-> [W EXCEPT !.objs[W.ssh_client].hostname =
                              Getenv(E, "SLURM_HOST", "localhost")],
          exc |-> NoExc, calls |-> << >>, config |-> NoConfig,
          connect |-> "none", client |-> W.slurm_client]

\* ensure_connection testing ssh_client alone: with ssh_client set and
\* slurm_client None it returns None, and the caller's method call on it
\* raises
ensure_connection_SshOnly(W, E, out) ==
    IF W.ssh_client = 0 THEN ensure_connection_Always(W, E, out)
    ELSE IF W.slurm_client = NoSlurm
    THEN [w |-> W,
          exc |-> [type |-> "AttributeError",
                   msg |-> "'NoneType' object has no attribute"],
          calls |-> << >>, config |-> NoConfig, connect |-> "none",
          client |-> W.slurm_client]
    ELSE [w |-> W, exc |-> NoExc, calls |-> << >>, config |-> NoConfig,
          connect |-> "none", client |-> W.slurm_client]

\* ensure_connection setting slurm_client before the connect
ensure_connection_EarlySlurm(W, E, out) ==
    LET r == ensure_connection_Always(W, E, out)
    IN  IF W.ssh_client # 0 /\ W.slurm_client # NoSlurm
        THEN [w |-> W, exc |-> NoExc, calls |-> << >>, config |-> NoConfig,
              connect |-> "none", client |-> W.slurm_client]
        ELSE IF r.connect = "failed"
        THEN [r EXCEPT !.w.slurm_client = SlurmClient_init(r.w.ssh_client)]
        ELSE r

\* ensure_connection: when either global is unset, read the configuration,
\* store a new SSHClient in ssh_client, connect it, and only then set
\* slurm_client
ensure_connection(W, E, out) ==
    IF W.ssh_client = 0 \/ W.slurm_client = NoSlurm
    THEN LET c    == get_connection_config(E)
             id   == NewId(W.objs)
             cfg  == c.config
             O1   == W.objs @@ (id :> SSHClient_init(cfg.hostname, cfg.username,
                                     cfg.password, cfg.key_filename, cfg.port))
             r    == SSHClient_connect(id, O1, W.handles, out)
             W1   == [W EXCEPT !.ssh_client = id, !.objs = r.objs, !.handles = r.handles]
         IN  IF c.exc # NoExc
             THEN [w |-> W, exc |-> c.exc, calls |-> << >>, config |-> NoConfig,
                   connect |-> "none", client |-> W.slurm_client]
             ELSE IF r.exc # NoExc
             THEN [w |-> W1, exc |-> r.exc, calls |-> r.calls, config |-> cfg,
                   connect |-> "failed", client |-> W.slurm_client]
             ELSE [w |-> [W1 EXCEPT !.slurm_client = SlurmClient_init(id)],
                   exc |-> NoExc, calls |-> r.calls, config |-> cfg,
                   connect |-> "ok", client |-> SlurmClient_init(id)]
    ELSE [w |-> W, exc |-> NoExc, calls |-> << >>, config |-> NoConfig,
          connect |-> "none", client |-> W.slurm_client]

\* except ValueError as e: the other exceptions leave the tool
TryExcept_ValueErrorOnly(b) ==
    IF b.exc.type = "ValueError"
    THEN [b EXCEPT !.ret = [status |-> "error", error |-> Str(b.exc)], !.exc = NoExc]
    ELSE b

\* except Exception as e: return {"status": "error", "error": str(e)}
TryExcept(b) ==
    IF b.exc # NoExc
    THEN [b EXCEPT !.ret = [status |-> "error", error |-> Str(b.exc)], !.exc = NoExc]
    ELSE b

\* the response with the two streams exchanged
Response_SwapStreams(result) ==
    IF result.success
    THEN [status |-> "success", data |-> result.stderr, command |-> result.command]
    ELSE [status |-> "error", error |-> result.stdout, command |-> result.command]

\* the response without the command
Response_NoCommand(result) ==
    IF result.success
    THEN [status |-> "success", data |-> result.stdout]
    ELSE [status |-> "error", error |-> result.stderr]

\* the dictionary five of the tools build from the SlurmClient result
Response(result) ==
    IF result.success
    THEN [status |-> "success", data |-> result.stdout, command |-> result.command]
    ELSE [status |-> "error", error |-> result.stderr, command |-> result.command]

\* the dictionary scancel builds
scancel_Response(job_id, result) ==
    IF result.success
    THEN [status |-> "success",
          message |-> "Job " \o job_id \o " cancelled successfully",
          command |-> result.command]
    ELSE [status |-> "error", error |-> result.stderr, command |-> result.command]

NoRet == [status |-> "<unset>"]

\* the try block with a second attempt: a connect that failed is made once
\* more, and a command that raised is sent once more
ToolBody_Retry(op, a, W, E, cout, xout) ==
    LET e  == ensure_connection(W, E, cout)
        e2 == ensure_connection(e.w, E, cout)
        r  == SlurmClient_method(op, e.client, a, e.w.objs, e.w.handles, xout)
    IN  IF e.exc # NoExc
        THEN [w |-> e2.w, exc |-> e2.exc, ret |-> NoRet, calls |-> e.calls \o e2.calls,
              config |-> e2.config, connect |-> e2.connect]
        ELSE IF r.exc # NoExc
        THEN [w |-> e.w, exc |-> r.exc, ret |-> NoRet,
              calls |-> e.calls \o r.calls \o r.calls,
              config |-> e.config, connect |-> e.connect]
        ELSE [w |-> e.w, exc |-> NoExc,
              ret |-> IF op = "scancel" THEN scancel_Response(a.job_id, r.result)
                      ELSE Response(r.result),
              calls |-> e.calls \o r.calls, config |-> e.config, connect |-> e.connect]

\* the try block dropping the session when the command raises
ToolBody_TeardownOnError(op, a, W, E, cout, xout) ==
    LET e == ensure_connection(W, E, cout)
        r == SlurmClient_method(op, e.client, a, e.w.objs, e.w.handles, xout)
        d == SSHClient_disconnect(e.w.ssh_client, e.w.objs, e.w.handles)
    IN  IF e.exc # NoExc
        THEN [w |-> e.w, exc |-> e.exc, ret |-> NoRet, calls |-> e.calls,
              config |-> e.config, connect |-> e.connect]
        ELSE IF r.exc # NoExc
        THEN [w |-> [ssh_client |-> 0, slurm_client |-> NoSlurm,
                     objs |-> d.objs, handles |-> d.handles],
              exc |-> r.exc, ret |-> NoRet, calls |-> e.calls \o r.calls \o d.calls,
              config |-> e.config, connect |-> e.connect]
        ELSE [w |-> e.w, exc |-> NoExc,
              ret |-> IF op = "scancel" THEN scancel_Response(a.job_id, r.result)
                      ELSE Response(r.result),
              calls |-> e.calls \o r.calls, config |-> e.config, connect |-> e.connect]

\* the try block of a scheduler tool: ensure_connection, the SlurmClient
\* method, the response
ToolBody(op, a, W, E, cout, xout) ==
    LET e == ensure_connection(W, E, cout)
        r == SlurmClient_method(op, e.client, a, e.w.objs, e.w.handles, xout)
    IN  IF e.exc # NoExc
        THEN [w |-> e.w, exc |-> e.exc, ret |-> NoRet, calls |-> e.calls,
              config |-> e.config, connect |-> e.connect]
        ELSE IF r.exc # NoExc
        THEN [w |-> e.w, exc |-> r.exc, ret |-> NoRet, calls |-> e.calls \o r.calls,
              config |-> e.config, connect |-> e.connect]
        ELSE [w |-> e.w, exc |-> NoExc,
              ret |-> IF op = "scancel" THEN scancel_Response(a.job_id, r.result)
                      ELSE Response(r.result),
              calls |-> e.calls \o r.calls, config |-> e.config, connect |-> e.connect]

squeue(a, W, E, cout, xout) == TryExcept(ToolBody("squeue", a, W, E, cout, xout))

sinfo(a, W, E, cout, xout) == TryExcept(ToolBody("sinfo", a, W, E, cout, xout))

sacct(a, W, E, cout, xout) == TryExcept(ToolBody("sacct", a, W, E, cout, xout))

scontrol_show_job(a, W, E, cout, xout) ==
    TryExcept(ToolBody("scontrol_show_job", a, W, E, cout, xout))

scontrol_show_node(a, W, E, cout, xout) ==
    TryExcept(ToolBody("scontrol_show_node", a, W, E, cout, xout))

scancel(a, W, E, cout, xout) == TryExcept(ToolBody("scancel", a, W, E, cout, xout))

\* get_connection_status dropping the session when its probe does not
\* return exit code 0
get_connection_status_Teardown(W, E, xout) ==
    LET c == get_connection_config(E)
        r == SSHClient_execute_command(W.ssh_client, W.objs, W.handles,
                                       "echo 'connection test'", xout)
        d == SSHClient_disconnect(W.ssh_client, W.objs, W.handles)
        W0 == [ssh_client |-> 0, slurm_client |-> NoSlurm,
               objs |-> d.objs, handles |-> d.handles]
        report(st) == [status |-> st, hostname |-> c.config.hostname,
                       username |-> c.config.username, port |-> c.config.port]
        probe == W.ssh_client # 0 /\ W.objs[W.ssh_client].client # 0
    IN  TryExcept(
          IF c.exc # NoExc
          THEN [w |-> W, exc |-> c.exc, ret |-> NoRet, calls |-> << >>,
                config |-> NoConfig, connect |-> "none"]
          ELSE IF probe /\ r.exc # NoExc
          THEN [w |-> W0, exc |-> r.exc, ret |-> NoRet, calls |-> r.calls \o d.calls,
                config |-> c.config, connect |-> "none"]
          ELSE IF probe /\ r.exit_code = 0
          THEN [w |-> W, exc |-> NoExc, ret |-> report("connected"), calls |-> r.calls,
                config |-> c.config, connect |-> "none"]
          ELSE [w |-> IF probe THEN W0 ELSE W, exc |-> NoExc,
                ret |-> report("disconnected"),
                calls |-> IF probe THEN r.calls \o d.calls ELSE << >>,
                config |-> c.config, connect |-> "none"])

\* get_connection_status: the configuration is read again; the probe runs
\* when ssh_client and ssh_client.client are both set
get_connection_status(W, E, xout) ==
    LET c == get_connection_config(E)
        r == SSHClient_execute_command(W.ssh_client, W.objs, W.handles,
                                       "echo 'connection test'", xout)
        report(st) == [status |-> st, hostname |-> c.config.hostname,
                       username |-> c.config.username, port |-> c.config.port]
        probe == W.ssh_client # 0 /\ W.objs[W.ssh_client].client # 0
    IN  TryExcept(
          IF c.exc # NoExc
          THEN [w |-> W, exc |-> c.exc, ret |-> NoRet, calls |-> << >>,
                config |-> NoConfig, connect |-> "none"]
          ELSE IF probe /\ r.exc # NoExc
          THEN [w |-> W, exc |-> r.exc, ret |-> NoRet, calls |-> r.calls,
                config |-> c.config, connect |-> "none"]
          ELSE IF probe /\ r.exit_code = 0
          THEN [w |-> W, exc |-> NoExc, ret |-> report("connected"), calls |-> r.calls,
                config |-> c.config, connect |-> "none"]
          ELSE [w |-> W, exc |-> NoExc, ret |-> report("disconnected"),
                calls |-> IF probe THEN r.calls ELSE << >>,
                config |-> c.config, connect |-> "none"])

\* disconnect: the tool
disconnect(W) ==
    LET d == SSHClient_disconnect(W.ssh_client, W.objs, W.handles)
    IN  TryExcept(
          IF W.ssh_client # 0
          THEN [w |-> [ssh_client |-> 0, slurm_client |-> NoSlurm,
                       objs |-> d.objs, handles |-> d.handles],
                exc |-> d.exc,
                ret |-> [status |-> "success", message |-> "Disconnected from SLURM cluster"],
                calls |-> d.calls, config |-> NoConfig, connect |-> "none"]
          ELSE [w |-> W, exc |-> NoExc,
                ret |-> [status |-> "success", message |-> "Disconnected from SLURM cluster"],
                calls |-> << >>, config |-> NoConfig, connect |-> "none"])

\* the ways mcp.run() ends: it returns, or KeyboardInterrupt or another
\* Exception leaves it
ServerEnds == {"return", "KeyboardInterrupt", "Exception"}

\* the exception that left mcp.run()
ServerError == [type |-> "Exception", msg |-> "server error"]

\* main after mcp.run() ended: the except clauses call disconnect(), the
\* second raises again
main(W, how) ==
    IF how = "return"
    THEN [w |-> W, exc |-> NoExc, ret |-> NoRet, calls |-> << >>,
          config |-> NoConfig, connect |-> "none"]
    ELSE [disconnect(W) EXCEPT !.ret = NoRet,
                               !.exc = IF how = "Exception" THEN ServerError ELSE NoExc]

\* no callback was registered with atexit
atexit_callback_Unregistered(W) ==
    [w |-> W, exc |-> NoExc, ret |-> NoRet, calls |-> << >>,
     config |-> NoConfig, connect |-> "none"]

\* the callback main registers: lambda: disconnect() if ssh_client else None
atexit_callback(W) ==
    IF W.ssh_client # 0
    THEN [disconnect(W) EXCEPT !.ret = NoRet]
    ELSE [w |-> W, exc |-> NoExc, ret |-> NoRet, calls |-> << >>,
          config |-> NoConfig, connect |-> "none"]

(***************************************************************************)
(* What the callers supply.                                                *)
(***************************************************************************)
\* the environments the process may run under, one per case of the
\* configuration: nothing set; password only (the key variable unset, so the
\* default key path applies); key variable empty with a password; key
\* variable empty without one; a port that is no number
EnvSet ==
    { [SLURM_HOST |-> None, SLURM_USER |-> None, USER |-> None,
       SLURM_PASSWORD |-> None, SLURM_KEY_FILE |-> None, SLURM_PORT |-> None],
      [SLURM_HOST |-> "cluster.example.com", SLURM_USER |-> "myuser", USER |-> "me",
       SLURM_PASSWORD |-> "mypass", SLURM_KEY_FILE |-> None, SLURM_PORT |-> "2222"],
      [SLURM_HOST |-> "hpc", SLURM_USER |-> None, USER |-> "me",
       SLURM_PASSWORD |-> "mypass", SLURM_KEY_FILE |-> "", SLURM_PORT |-> "22"],
      [SLURM_HOST |-> "hpc", SLURM_USER |-> None, USER |-> "me",
       SLURM_PASSWORD |-> None, SLURM_KEY_FILE |-> "", SLURM_PORT |-> None],
      [SLURM_HOST |-> None, SLURM_USER |-> None, USER |-> "me",
       SLURM_PASSWORD |-> None, SLURM_KEY_FILE |-> "/k", SLURM_PORT |-> "abc"] }

\* the arguments the tools are called with: no filter, or every filter
SqueueArgs == { [user |-> None, job_id |-> None, partition |-> None, format_str |-> None],
                [user |-> "u", job_id |-> "5", partition |-> "p", format_str |-> "%i"] }
SinfoArgs  == { [partition |-> "p", format_str |-> None, nodes |-> "n1"] }
SacctArgs  == { [job_id |-> "5", user |-> None, start_time |-> "2024-01-01",
                 end_time |-> None, format_str |-> "JobID"] }
JobArgs    == [job_id : {"5"}]
NodeArgs   == [node_name : {None, "n1"}]
NoArgs     == << >>

\* the constructor arguments a direct caller of SSHClient passes
LibPasswords == {None, "", "testpass"}
LibKeys      == {None, "", "/path/to/key"}

\* the scheduler tools
SchedOps == {"squeue", "sinfo", "sacct", "scontrol_show_job", "scontrol_show_node",
             "scancel"}

(***************************************************************************)
(* The state machine.                                                      *)
(***************************************************************************)
NoCall == [op |-> "<none>", args |-> NoArgs, ret |-> NoRet, exc |-> NoExc,
           calls |-> << >>, config |-> NoConfig, connect |-> "none"]

\* reference counting: an SSHClient nothing refers to is freed
Collect(O, roots) == [i \in (DOMAIN O) \cap roots |-> O[i]]

\* a tool returned: the globals and heaps it left, and the record of the call
Commit(op, a, r) ==
    /\ ssh_client' = r.w.ssh_client
    /\ slurm_client' = r.w.slurm_client
    /\ handles' = r.w.handles
    /\ objs' = Collect(r.w.objs, {r.w.ssh_client, r.w.slurm_client.ssh_client})
    /\ last' = [op |-> op, args |-> a, ret |-> r.ret, exc |-> r.exc, calls |-> r.calls,
                config |-> r.config, connect |-> r.connect]
    /\ UNCHANGED <<env, lib, proc>>

\* the process serves the tools, and a connect, if one is due, can still
\* construct its handle
CanServe ==
    /\ proc = "running"
    /\ lib = 0
    /\ (ssh_client = 0 \/ slurm_client = NoSlurm) => Len(handles) < MaxHandles

Call_squeue ==
    \E a \in SqueueArgs, o \in Outcomes :
        CanServe /\ Commit("squeue", a, squeue(a, World, env, o.connect, o.exec))

Call_sinfo ==
    \E a \in SinfoArgs, o \in Outcomes :
        CanServe /\ Commit("sinfo", a, sinfo(a, World, env, o.connect, o.exec))

Call_sacct ==
    \E a \in SacctArgs, o \in Outcomes :
        CanServe /\ Commit("sacct", a, sacct(a, World, env, o.connect, o.exec))

Call_scontrol_show_job ==
    \E a \in JobArgs, o \in Outcomes :
        CanServe /\ Commit("scontrol_show_job", a,
                           scontrol_show_job(a, World, env, o.connect, o.exec))

Call_scontrol_show_node ==
    \E a \in NodeArgs, o \in Outcomes :
        CanServe /\ Commit("scontrol_show_node", a,
                           scontrol_show_node(a, World, env, o.connect, o.exec))

Call_scancel ==
    \E a \in JobArgs, o \in Outcomes :
        CanServe /\ Commit("scancel", a, scancel(a, World, env, o.connect, o.exec))

Call_get_connection_status ==
    \E xout \in ExecOutcomes :
        proc = "running" /\ lib = 0 /\ Commit("get_connection_status", NoArgs,
                          get_connection_status(World, env, xout))

Call_disconnect ==
    proc = "running" /\ lib = 0 /\ Commit("disconnect", NoArgs, disconnect(World))

\* the environment of the process changes between two calls
Setenv ==
    \E e \in EnvSet :
        /\ proc = "running"
        /\ lib = 0
        /\ e # env
        /\ env' = e
        /\ UNCHANGED <<ssh_client, slurm_client, objs, handles, lib, last, proc>>

\* what a step of the exit path left, and where the process is then
CommitExit(op, a, r, p) ==
    /\ ssh_client' = r.w.ssh_client
    /\ slurm_client' = r.w.slurm_client
    /\ handles' = r.w.handles
    /\ objs' = Collect(r.w.objs, {r.w.ssh_client, r.w.slurm_client.ssh_client})
    /\ last' = [op |-> op, args |-> a, ret |-> r.ret, exc |-> r.exc, calls |-> r.calls,
                config |-> r.config, connect |-> r.connect]
    /\ proc' = p
    /\ UNCHANGED <<env, lib>>

\* mcp.run() ended and main ran to its end; the interpreter exits next
MainEnds(how) ==
    /\ proc = "running"
    /\ lib = 0
    /\ CommitExit("main", [how |-> how], main(World, how), "atexit")

Main_returns == MainEnds("return")

Main_KeyboardInterrupt == MainEnds("KeyboardInterrupt")

Main_Exception == MainEnds("Exception")

\* the interpreter runs the registered callback and the process is gone
Atexit ==
    /\ proc = "atexit"
    /\ CommitExit("atexit", last.args, atexit_callback(World), "exited")

\* a direct caller of the library calls a method of the SSHClient it holds
Lib_connect ==
    \E out \in ConnectOutcomes :
        /\ lib # 0
        /\ Len(handles) < MaxHandles
        /\ LET r == SSHClient_connect(lib, objs, handles, out)
           IN  /\ objs' = r.objs
               /\ handles' = r.handles
               /\ last' = [op |-> "SSHClient.connect", args |-> NoArgs, ret |-> NoRet,
                           exc |-> r.exc, calls |-> r.calls, config |-> NoConfig,
                           connect |-> IF r.exc = NoExc THEN "ok" ELSE "failed"]
        /\ UNCHANGED <<env, ssh_client, slurm_client, lib, proc>>

Lib_disconnect ==
    /\ lib # 0
    /\ LET r == SSHClient_disconnect(lib, objs, handles)
       IN  /\ objs' = r.objs
           /\ handles' = r.handles
           /\ last' = [op |-> "SSHClient.disconnect", args |-> NoArgs, ret |-> NoRet,
                       exc |-> r.exc, calls |-> r.calls, config |-> NoConfig,
                       connect |-> "none"]
    /\ UNCHANGED <<env, ssh_client, slurm_client, lib, proc>>

Lib_execute_command ==
    \E command \in {"echo 'test'"}, out \in ExecOutcomes :
        /\ lib # 0
        /\ LET r == SSHClient_execute_command(lib, objs, handles, command, out)
           IN  last' = [op |-> "SSHClient.execute_command",
                        args |-> [command |-> command],
                        ret |-> IF r.exc = NoExc
                                THEN [stdout |-> r.stdout, stderr |-> r.stderr,
                                      exit_code |-> r.exit_code]
                                ELSE NoRet,
                        exc |-> r.exc, calls |-> r.calls, config |-> NoConfig,
                        connect |-> "none"]
        /\ UNCHANGED <<env, ssh_client, slurm_client, objs, handles, lib, proc>>

\* the module was imported: no session, nothing in the heaps
InitServer ==
    /\ env \in EnvSet
    /\ ssh_client = 0
    /\ slurm_client = NoSlurm
    /\ objs = << >>
    /\ handles = << >>
    /\ lib = 0
    /\ last = NoCall
    /\ proc = "running"

\* a direct caller constructed one SSHClient
InitLib ==
    /\ env \in {e \in EnvSet : \A k \in DOMAIN e : e[k] = None}
    /\ ssh_client = 0
    /\ slurm_client = NoSlurm
    /\ \E password \in LibPasswords, key_filename \in LibKeys :
           objs = (1 :> SSHClient_init("test.example.com", "testuser", password,
                                       key_filename, 22))
    /\ handles = << >>
    /\ lib = 1
    /\ last = NoCall
    /\ proc = "running"

Init == InitServer \/ InitLib

Next ==
    \/ Call_squeue
    \/ Call_sinfo
    \/ Call_sacct
    \/ Call_scontrol_show_job
    \/ Call_scontrol_show_node
    \/ Call_scancel
    \/ Call_get_connection_status
    \/ Call_disconnect
    \/ Setenv
    \/ Main_returns
    \/ Main_KeyboardInterrupt
    \/ Main_Exception
    \/ Atexit
    \/ Lib_connect
    \/ Lib_disconnect
    \/ Lib_execute_command

Spec == Init /\ [][Next]_vars

(***************************************************************************)
(* The server process from its start to its exit, under one environment    *)
(* that does not change.  The interpreter, once main is over, runs the     *)
(* atexit callbacks: the exit step is taken when it is due.                *)
(***************************************************************************)
InitExit ==
    /\ InitServer
    /\ env.SLURM_HOST = "hpc"

NextExit ==
    \/ Call_squeue
    \/ Call_sinfo
    \/ Call_sacct
    \/ Call_scontrol_show_job
    \/ Call_scontrol_show_node
    \/ Call_scancel
    \/ Call_get_connection_status
    \/ Call_disconnect
    \/ Main_returns
    \/ Main_KeyboardInterrupt
    \/ Main_Exception
    \/ Atexit

SpecExit == InitExit /\ [][NextExit]_vars /\ WF_vars(Atexit)

(***************************************************************************)
(* SlurmClient used directly over a connected SSHClient, as the tests of   *)
(* slurm_commands.py and demo.py use it: every combination of filters.     *)
(***************************************************************************)
\* a filter is None, the empty string, or a value
Filt(v) == {None, "", v}

SqueueFilters == [user : Filt("alice"), job_id : Filt("12345"), partition : Filt("gpu"),
                  format_str : Filt("%i %j")]
SinfoFilters  == [partition : Filt("gpu"), format_str : Filt("%P %a"),
                  nodes : Filt("node[1-2]")]
SacctFilters  == [job_id : Filt("12345"), user : Filt("alice"),
                  start_time : Filt("2024-01-01"), end_time : Filt("2024-01-31"),
                  format_str : Filt("JobID,State")]
JobIds        == [job_id : {"12345", "7"}]
NodeNames     == [node_name : Filt("node1")]

\* the command ends with exit code 0 or 1
CmdOutcomes == {o \in ExecOutcomes : o.kind = "returns" /\ o.stdout = <<" ", "o", "\n">>}

\* a SlurmClient method was called on SlurmClient(ssh_client) and returned
\* its dictionary, or raised
SlurmCall(op, a, out) ==
    /\ lib # 0
    /\ LET r == SlurmClient_method(op, SlurmClient_init(lib), a, objs, handles, out)
       IN  last' = [op |-> "SlurmClient." \o op, args |-> a,
                    ret |-> IF r.exc = NoExc THEN r.result ELSE NoRet,
                    exc |-> r.exc, calls |-> r.calls, config |-> NoConfig,
                    connect |-> "none"]
    /\ UNCHANGED <<env, ssh_client, slurm_client, objs, handles, lib, proc>>

Slurm_squeue == \E a \in SqueueFilters, out \in CmdOutcomes : SlurmCall("squeue", a, out)

Slurm_sinfo == \E a \in SinfoFilters, out \in CmdOutcomes : SlurmCall("sinfo", a, out)

Slurm_sacct == \E a \in SacctFilters, out \in CmdOutcomes : SlurmCall("sacct", a, out)

Slurm_scontrol_show_job ==
    \E a \in JobIds, out \in CmdOutcomes : SlurmCall("scontrol_show_job", a, out)

Slurm_scontrol_show_node ==
    \E a \in NodeNames, out \in CmdOutcomes : SlurmCall("scontrol_show_node", a, out)

Slurm_scancel == \E a \in JobIds, out \in CmdOutcomes : SlurmCall("scancel", a, out)

\* the caller constructed an SSHClient, connected it and wrapped it
InitCmd ==
    LET O0 == (1 :> SSHClient_init("cluster.example.com", "testuser", "testpass", None, 22))
        r  == SSHClient_connect(1, O0, << >>, "ok")
    IN  /\ env \in {e \in EnvSet : \A k \in DOMAIN e : e[k] = None}
        /\ ssh_client = 0
        /\ slurm_client = NoSlurm
        /\ objs = r.objs
        /\ handles = r.handles
        /\ lib = 1
        /\ last = NoCall
        /\ proc = "running"

NextCmd ==
    \/ Slurm_squeue
    \/ Slurm_sinfo
    \/ Slurm_sacct
    \/ Slurm_scontrol_show_job
    \/ Slurm_scontrol_show_node
    \/ Slurm_scancel

SpecCmd == InitCmd /\ [][NextCmd]_vars

(***************************************************************************)
(* Vocabulary of the properties.                                           *)
(***************************************************************************)
\* the calls of fn the last call made on the transport
CallsOf(l, fn) == {i \in 1..Len(l.calls) : l.calls[i].fn = fn}

\* the last call ran a command and execute_command returned its triple
Returned(l) == \E i \in CallsOf(l, "exec_command") : l.calls[i].out.kind = "returns"

\* the outcome of the command the last call ran
ExecOut(l) == l.calls[CHOOSE i \in CallsOf(l, "exec_command") : TRUE].out

\* the command the last call sent to the transport
ExecCommand(l) == l.calls[CHOOSE i \in CallsOf(l, "exec_command") : TRUE].command

\* the handles constructed and not closed
OpenHandles == {h \in 1..Len(handles) : handles[h].closes = 0}

\* both globals are set: what ensure_connection takes for a session
Established == ssh_client # 0 /\ slurm_client # NoSlurm

\* the message of the error that made the last scheduler call fail
ExpectedError(l) ==
    IF CallsOf(l, "exec_command") # {} THEN Str(ExecError(ExecOut(l).kind))
    ELSE IF CallsOf(l, "connect") # {}
    THEN Str(ConnectError(l.calls[CHOOSE i \in CallsOf(l, "connect") : TRUE].out))
    ELSE IF l.connect = "failed" THEN Str(ValueError_NoAuth)
    ELSE Str(ValueError_Int)

(***************************************************************************)
(* C1.  A failed connect leaves no partial session: right after a connect  *)
(* that raised, no SSHClient holds a handle and both globals of the server *)
(* are unset.                                                              *)
(***************************************************************************)
C1_FailedConnectLeavesNothing ==
    last.connect = "failed" =>
        /\ \A i \in DOMAIN objs : objs[i].client = 0
        /\ ssh_client = 0
        /\ slurm_client = NoSlurm

(***************************************************************************)
(* C2.  At most one session at a time: in the server, at most one handle   *)
(* that was constructed has not been closed.                               *)
(***************************************************************************)
C2_AtMostOneOpenHandle ==
    lib = 0 => Cardinality(OpenHandles) <= 1

(***************************************************************************)
(* C3.  Every error is caught at the boundary of a scheduler tool: the     *)
(* tool never raises, and when the configuration, the connect or the       *)
(* command failed it returns status error with the message of that error.  *)
(***************************************************************************)
C3_ErrorsCaughtAtBoundary ==
    last.op \in SchedOps =>
        /\ last.exc = NoExc
        /\ ~Returned(last) =>
              /\ DOMAIN last.ret = {"status", "error"}
              /\ last.ret.status = "error"
              /\ last.ret.error = ExpectedError(last)

\* a scheduler tool whose command timed out
C3_Witness ==
    /\ last.op \in SchedOps
    /\ CallsOf(last, "exec_command") # {}
    /\ ExecOut(last).kind = "timeout"
    /\ last.ret.status = "error"

(***************************************************************************)
(* C4.  For each of the six scheduler tools a nonzero exit code gives      *)
(* status error with the stripped stderr as the error, and exit code 0     *)
(* gives status success with the stripped stdout as the data.              *)
(***************************************************************************)
C4_ExitCodeDecidesAllSix ==
    (last.op \in SchedOps /\ Returned(last)) =>
        IF ExecOut(last).exit_code # 0
        THEN /\ last.ret.status = "error"
             /\ "error" \in DOMAIN last.ret
             /\ last.ret.error = Strip(ExecOut(last).stderr)
        ELSE /\ last.ret.status = "success"
             /\ "data" \in DOMAIN last.ret
             /\ last.ret.data = Strip(ExecOut(last).stdout)

(***************************************************************************)
(* C4, amended.  A nonzero exit code gives status error with the stripped  *)
(* stderr for all six tools; exit code 0 gives status success, with the    *)
(* stripped stdout as the data for five of them and, for scancel, with the *)
(* message "Job <id> cancelled successfully" and no data.                  *)
(***************************************************************************)
C4_ExitCodeDecides ==
    (last.op \in SchedOps /\ Returned(last)) =>
        IF ExecOut(last).exit_code # 0
        THEN /\ last.ret.status = "error"
             /\ "error" \in DOMAIN last.ret
             /\ last.ret.error = Strip(ExecOut(last).stderr)
        ELSE IF last.op = "scancel"
        THEN /\ last.ret.status = "success"
             /\ "data" \notin DOMAIN last.ret
             /\ "message" \in DOMAIN last.ret
             /\ last.ret.message = "Job " \o last.args.job_id \o " cancelled successfully"
        ELSE /\ last.ret.status = "success"
             /\ "data" \in DOMAIN last.ret
             /\ last.ret.data = Strip(ExecOut(last).stdout)

\* scancel whose command printed something and exited with 0
C4_Witness ==
    /\ last.op = "scancel"
    /\ Returned(last)
    /\ ExecOut(last).exit_code = 0
    /\ Strip(ExecOut(last).stdout) # << >>

(***************************************************************************)
(* C5.  Every result of a scheduler tool has the shape {status, data or    *)
(* error, command}, the command being the one that was built, on every     *)
(* path.                                                                   *)
(***************************************************************************)
C5_CommandOnEveryPath ==
    last.op \in SchedOps =>
        /\ {"status", "command"} \subseteq DOMAIN last.ret
        /\ "data" \in DOMAIN last.ret \/ "error" \in DOMAIN last.ret
        /\ last.ret.command = CommandOf(last.op, last.args)

(***************************************************************************)
(* C5, amended.  A result built from the triple execute_command returned   *)
(* carries the command that was sent, with status and one of data, message *)
(* (scancel) or error; a result built from an error raised while reading   *)
(* the configuration, connecting or executing is {status, error} alone.    *)
(***************************************************************************)
C5_CommandWhenReturned ==
    last.op \in SchedOps =>
        IF Returned(last)
        THEN /\ DOMAIN last.ret =
                  {"status", "command",
                   IF ExecOut(last).exit_code # 0 THEN "error"
                   ELSE IF last.op = "scancel" THEN "message" ELSE "data"}
             /\ last.ret.command = ExecCommand(last)
             /\ last.ret.command = CommandOf(last.op, last.args)
        ELSE DOMAIN last.ret = {"status", "error"}

\* a scheduler tool that connected and whose command then raised
C5_Witness ==
    /\ last.op \in SchedOps
    /\ last.connect = "ok"
    /\ CallsOf(last, "exec_command") # {}
    /\ ~Returned(last)
    /\ "command" \notin DOMAIN last.ret

(***************************************************************************)
(* C6.  execute_command on an SSHClient without a handle raises the        *)
(* not-connected error and makes no call on the transport.                 *)
(***************************************************************************)
C6_ExecuteWithoutSession ==
    (last.op = "SSHClient.execute_command" /\ objs[lib].client = 0) =>
        /\ last.exc = RuntimeError_NotConnected
        /\ last.calls = << >>

\* execute_command after a connect and a disconnect
C6_Witness ==
    /\ last.op = "SSHClient.execute_command"
    /\ objs[lib].client = 0
    /\ \E h \in 1..Len(handles) : handles[h].closes = 1

(***************************************************************************)
(* C7.  connect with neither a password nor a key file raises the          *)
(* configuration error before the transport's connect is called, directly  *)
(* and under a scheduler tool.                                             *)
(***************************************************************************)
C7_NoAuthFailsBeforeTransport ==
    /\ (/\ last.op = "SSHClient.connect"
        /\ ~Truthy(objs[lib].password)
        /\ ~Truthy(objs[lib].key_filename)) =>
            /\ last.exc = ValueError_NoAuth
            /\ CallsOf(last, "connect") = {}
    /\ (/\ last.op \in SchedOps
        /\ last.connect # "none"
        /\ ~Truthy(last.config.password)
        /\ ~Truthy(last.config.key_filename)) =>
            /\ last.ret = [status |-> "error", error |-> Str(ValueError_NoAuth)]
            /\ CallsOf(last, "connect") = {}

\* a direct connect on an SSHClient built with an empty password and no key
C7_Witness ==
    /\ last.op = "SSHClient.connect"
    /\ objs[lib].password = ""
    /\ objs[lib].key_filename = None
    /\ last.exc = ValueError_NoAuth

(***************************************************************************)
(* C8.  disconnect is idempotent: no handle is ever closed twice; the      *)
(* method never raises and leaves the SSHClient without a handle; the tool *)
(* returns status success and leaves both globals unset, whether or not a  *)
(* session existed.                                                        *)
(***************************************************************************)
C8_DisconnectIdempotent ==
    /\ \A h \in 1..Len(handles) : handles[h].closes <= 1
    /\ last.op = "SSHClient.disconnect" =>
          /\ last.exc = NoExc
          /\ objs[lib].client = 0
    /\ last.op = "disconnect" =>
          /\ last.exc = NoExc
          /\ last.ret.status = "success"
          /\ ssh_client = 0
          /\ slurm_client = NoSlurm
          /\ objs = << >>

\* a second disconnect: nothing left to close, one handle closed before
C8_Witness ==
    /\ last.op = "SSHClient.disconnect"
    /\ last.calls = << >>
    /\ \E h \in 1..Len(handles) : handles[h].closes = 1

(***************************************************************************)
(* C9.  Connect once and reuse: a scheduler tool attempts a connect only   *)
(* when it finds no session; from a state with a session, every call but   *)
(* the disconnect tool leaves the session in place, and a scheduler tool   *)
(* makes exactly one transport call, the command on that session's handle. *)
(***************************************************************************)
C9_ConnectOnceAndReuse ==
    [][ /\ (last' # last /\ last'.op \in SchedOps /\ last'.connect # "none")
              => ~Established
        /\ (Established /\ proc' = "running"
               /\ ~(last' # last /\ last'.op = "disconnect")) =>
              /\ ssh_client' = ssh_client
              /\ slurm_client' = slurm_client
              /\ objs' = objs
              /\ handles' = handles
        /\ (Established /\ last' # last /\ last'.op \in SchedOps) =>
              /\ last'.connect = "none"
              /\ Len(last'.calls) = 1
              /\ last'.calls[1].fn = "exec_command"
              /\ last'.calls[1].h = objs[ssh_client].client
              /\ handles[last'.calls[1].h].connected
      ]_vars

\* a scheduler tool that ran its command without connecting
C9_Witness ==
    /\ last.op \in SchedOps
    /\ last.connect = "none"
    /\ Returned(last)
    /\ Established

(***************************************************************************)
(* C10.  The configuration is immutable once read: two successive reads    *)
(* of it, neither under a connect that failed, return the same host, user, *)
(* password, key path and port, whatever happened to the environment       *)
(* between them.                                                           *)
(***************************************************************************)
C10_ConfigImmutableOnceRead ==
    [][(/\ last.config # NoConfig /\ last.connect # "failed"
        /\ last'.config # NoConfig /\ last'.connect # "failed")
          => last'.config = last.config]_vars

\* the configuration an SSHClient was constructed with
ConfigOf(o) == [hostname |-> o.hostname, username |-> o.username,
                password |-> o.password, key_filename |-> o.key_filename,
                port |-> o.port]

(***************************************************************************)
(* C10, amended.  The configuration is read from the environment at every  *)
(* connect attempt of ensure_connection and at every connection-status     *)
(* call, as the environment is then; what is fixed is the configuration of *)
(* an SSHClient: as long as ssh_client is the same object its host, user,  *)
(* password, key path and port do not change, and they are those read when *)
(* it was constructed.                                                     *)
(***************************************************************************)
C10_ConfigFixedPerSession ==
    [][ /\ (ssh_client # 0 /\ ssh_client' = ssh_client) =>
              ConfigOf(objs'[ssh_client']) = ConfigOf(objs[ssh_client])
        /\ (last' # last /\ last'.config # NoConfig) =>
              last'.config = get_connection_config(env).config
        /\ (last' # last /\ last'.connect # "none" /\ lib = 0) =>
              ConfigOf(objs'[ssh_client']) = get_connection_config(env).config
        /\ (last' # last /\ last'.op = "get_connection_status"
               /\ last'.ret.status # "error") =>
              /\ last'.ret.hostname = get_connection_config(env).config.hostname
              /\ last'.ret.username = get_connection_config(env).config.username
              /\ last'.ret.port = get_connection_config(env).config.port
      ]_vars

\* connection-status reporting a host the session was not connected to
C10_Witness ==
    /\ last.op = "get_connection_status"
    /\ last.ret.status = "connected"
    /\ Established
    /\ last.ret.hostname # objs[ssh_client].hostname

(***************************************************************************)
(* C11.  For squeue, sinfo and sacct the command is the command name, then *)
(* exactly one format flag with the caller's format, or the default when   *)
(* none is supplied, then the flag and value of each supplied filter once, *)
(* in the fixed order (-u -j -p; -p -n; -j -u -S -E), and nothing for an   *)
(* absent filter.  A filter is supplied when it is a non-empty string; the *)
(* format of squeue and sinfo is wrapped in double quotes, that of sacct   *)
(* is not.  The command so built is the one sent and the one returned.     *)
(***************************************************************************)
\* the text a filter contributes to the command line
C11_Part(flag, v) == IF v = None \/ v = "" THEN "" ELSE " " \o flag \o " " \o v

\* the format the caller supplied, or the default
C11_Format(v, default) == IF v = None \/ v = "" THEN default ELSE v

C11_Expected(l) ==
    LET a == l.args
    IN  CASE l.op = "SlurmClient.squeue" ->
               "squeue -o \"" \o C11_Format(a.format_str, "%.18i %.9P %.8j %.8u %.2t %.10M %.6D %R")
               \o "\"" \o C11_Part("-u", a.user) \o C11_Part("-j", a.job_id)
               \o C11_Part("-p", a.partition)
          [] l.op = "SlurmClient.sinfo" ->
               "sinfo -o \"" \o C11_Format(a.format_str, "%.20P %.5a %.10l %.6D %.6t %.14N")
               \o "\"" \o C11_Part("-p", a.partition) \o C11_Part("-n", a.nodes)
          [] l.op = "SlurmClient.sacct" ->
               "sacct --format "
               \o C11_Format(a.format_str,
                             "JobID,JobName,Partition,Account,AllocCPUS,State,ExitCode")
               \o C11_Part("-j", a.job_id) \o C11_Part("-u", a.user)
               \o C11_Part("-S", a.start_time) \o C11_Part("-E", a.end_time)

C11_FlagsInFixedOrder ==
    last.op \in {"SlurmClient.squeue", "SlurmClient.sinfo", "SlurmClient.sacct"} =>
        /\ Cardinality(CallsOf(last, "exec_command")) = 1
        /\ ExecCommand(last) = C11_Expected(last)
        /\ last.ret.command = C11_Expected(last)

\* sacct was called with some filters supplied, one None and one empty
C11_Witness ==
    /\ last.op = "SlurmClient.sacct"
    /\ last.args.job_id = "12345"
    /\ last.args.user = None
    /\ last.args.start_time = "2024-01-01"
    /\ last.args.end_time = ""
    /\ last.args.format_str = None
    /\ last.ret.command =
         "sacct --format JobID,JobName,Partition,Account,AllocCPUS,State,ExitCode -j 12345 -S 2024-01-01"

(***************************************************************************)
(* C12.  With no filter supplied the commands are squeue and sinfo with    *)
(* their default -o format and sacct with its default --format list;       *)
(* "scontrol show nodes" is the command exactly when the node name is      *)
(* absent, otherwise "scontrol show node <name>"; the job tools build      *)
(* "scontrol show job <id>" and "scancel <id>".                            *)
(***************************************************************************)
C12_Absent(v) == v = None \/ v = ""

C12_BaseCommands ==
    LET a == last.args
        c == ExecCommand(last)
    IN  /\ (last.op = "SlurmClient.squeue" /\ \A k \in DOMAIN a : C12_Absent(a[k])) =>
               c = "squeue -o \"%.18i %.9P %.8j %.8u %.2t %.10M %.6D %R\""
        /\ (last.op = "SlurmClient.sinfo" /\ \A k \in DOMAIN a : C12_Absent(a[k])) =>
               c = "sinfo -o \"%.20P %.5a %.10l %.6D %.6t %.14N\""
        /\ (last.op = "SlurmClient.sacct" /\ \A k \in DOMAIN a : C12_Absent(a[k])) =>
               c = "sacct --format JobID,JobName,Partition,Account,AllocCPUS,State,ExitCode"
        /\ last.op = "SlurmClient.scontrol_show_node" =>
               /\ (c = "scontrol show nodes") <=> C12_Absent(a.node_name)
               /\ ~C12_Absent(a.node_name) => c = "scontrol show node " \o a.node_name
        /\ last.op = "SlurmClient.scontrol_show_job" => c = "scontrol show job " \o a.job_id
        /\ last.op = "SlurmClient.scancel" => c = "scancel " \o a.job_id
        /\ last.op # "<none>" => last.ret.command = c

\* scontrol_show_node was called without a node name
C12_Witness ==
    /\ last.op = "SlurmClient.scontrol_show_node"
    /\ last.args.node_name = None
    /\ last.ret.command = "scontrol show nodes"

(***************************************************************************)
(* C13.  No retries: one call of a scheduler tool makes at most one        *)
(* connect and sends at most one command; it sends exactly one command     *)
(* when it found a session or could establish one; a connect or a command  *)
(* that failed is the last thing the call did on the transport.            *)
(***************************************************************************)
C13_NoRetries ==
    last.op \in SchedOps =>
        LET connects == CallsOf(last, "connect")
            execs    == CallsOf(last, "exec_command")
        IN  /\ Cardinality(connects) <= 1
            /\ Cardinality(execs) <= 1
            /\ Len(last.calls) = Cardinality(connects) + Cardinality(execs)
            /\ last.connect = "ok" => Cardinality(execs) = 1
            /\ (last.connect = "none" /\ Established) => Cardinality(execs) = 1
            /\ last.connect = "failed" => execs = {}
            /\ \A i \in connects : last.calls[i].out # "ok" => i = Len(last.calls)
            /\ \A i \in execs : last.calls[i].out.kind # "returns" => i = Len(last.calls)

\* a call connected, sent its command once, and the command timed out
C13_Witness ==
    /\ last.op \in SchedOps
    /\ last.connect = "ok"
    /\ Len(last.calls) = 2
    /\ last.calls[2].fn = "exec_command"
    /\ last.calls[2].out.kind = "timeout"
    /\ last.ret.status = "error"

(***************************************************************************)
(* C14.  The key takes precedence: connect passes to the transport the key *)
(* file alone when a key file is configured, with or without a password,   *)
(* and the password alone when only a password is configured.              *)
(***************************************************************************)
C14_KeyTakesPrecedence ==
    \A i \in CallsOf(last, "connect") :
        LET kw  == last.calls[i].kwargs
            cfg == IF last.op = "SSHClient.connect" THEN ConfigOf(objs[lib])
                   ELSE last.config
        IN  /\ Truthy(cfg.key_filename) =>
                /\ "key_filename" \in DOMAIN kw
                /\ kw.key_filename = cfg.key_filename
                /\ "password" \notin DOMAIN kw
            /\ (~Truthy(cfg.key_filename) /\ Truthy(cfg.password)) =>
                /\ "password" \in DOMAIN kw
                /\ kw.password = cfg.password
                /\ "key_filename" \notin DOMAIN kw

\* an SSHClient with both a key file and a password connected
C14_Witness ==
    /\ last.op = "SSHClient.connect"
    /\ Truthy(objs[lib].key_filename)
    /\ Truthy(objs[lib].password)
    /\ \E i \in CallsOf(last, "connect") :
           /\ last.calls[i].out = "ok"
           /\ "key_filename" \in DOMAIN last.calls[i].kwargs

(***************************************************************************)
(* C15.  Password authentication from the environment: when a scheduler    *)
(* tool establishes a session while SLURM_PASSWORD is set and              *)
(* SLURM_KEY_FILE is not, the connect passes that password to the          *)
(* transport.                                                              *)
(***************************************************************************)
C15_PasswordFromEnvironment ==
    [][ ( /\ last' # last
          /\ last'.op \in SchedOps
          /\ last'.connect = "ok"
          /\ Truthy(env.SLURM_PASSWORD)
          /\ env.SLURM_KEY_FILE = None )
        => \E i \in CallsOf(last', "connect") :
               /\ "password" \in DOMAIN last'.calls[i].kwargs
               /\ last'.calls[i].kwargs.password = env.SLURM_PASSWORD ]_vars

(***************************************************************************)
(* C16.  The session is torn down on process exit: once the server loop    *)
(* has ended, by return, by KeyboardInterrupt or by an Exception, the      *)
(* process goes on to exit, and when it is gone both globals are None and  *)
(* no transport is left connected.                                         *)
(***************************************************************************)
C16_Cleared ==
    /\ ssh_client = 0
    /\ slurm_client = NoSlurm
    /\ objs = << >>
    /\ \A h \in 1..Len(handles) : ~handles[h].connected

C16_TornDownOnExit ==
    /\ [](proc = "exited" => C16_Cleared)
    /\ (proc = "atexit") ~> (proc = "exited" /\ C16_Cleared)

\* the server loop returned with a session established, and the callback
\* closed its transport
C16_Witness ==
    /\ proc = "exited"
    /\ last.op = "atexit"
    /\ last.args.how = "return"
    /\ \E i \in CallsOf(last, "close") : handles[last.calls[i].h].closes = 1
    /\ C16_Cleared

(***************************************************************************)
(* C17.  Callers can reconnect after a failure to connect: when the last   *)
(* scheduler tool failed because its connect failed, the next scheduler    *)
(* tool, given a configuration it can read, constructs a new handle and    *)
(* attempts a connect; if that connect succeeds the session is             *)
(* established on the new handle, the tool's command runs on it, and the   *)
(* response carries the command and the status its exit code decides.      *)
(***************************************************************************)
C17_ReconnectAfterFailure ==
    [][ ( /\ last.op \in SchedOps
          /\ last.connect = "failed"
          /\ last'.op \in SchedOps
          /\ (last' # last \/ handles' # handles)
          /\ get_connection_config(env).exc = NoExc )
        => LET h == Len(handles) + 1
           IN  /\ last'.connect \in {"ok", "failed"}
               /\ Len(handles') = h
               /\ ssh_client' # 0
               /\ objs'[ssh_client'].client = h
               /\ last'.connect = "ok" =>
                    /\ slurm_client' = SlurmClient_init(ssh_client')
                    /\ handles'[h].connected
                    /\ \E i \in CallsOf(last', "exec_command") :
                           /\ last'.calls[i].h = h
                           /\ last'.calls[i].command = CommandOf(last'.op, last'.args)
                    /\ Returned(last') =>
                           /\ last'.ret.command = CommandOf(last'.op, last'.args)
                           /\ last'.ret.status = IF ExecOut(last').exit_code = 0
                                                 THEN "success" ELSE "error" ]_vars

\* the first connect failed and left its handle, the second succeeded, and
\* the command returned exit code 0
C17_Witness ==
    /\ last.op \in SchedOps
    /\ last.connect = "ok"
    /\ Len(handles) = 2
    /\ ~handles[1].connected
    /\ handles[1].closes = 0
    /\ objs[ssh_client].client = 2
    /\ Returned(last)
    /\ last.ret.status = "success"

(***************************************************************************)
(* C18.  Whenever slurm_client is set, ssh_client is set, slurm_client     *)
(* wraps that very SSHClient, and the handle in it is one whose connect    *)
(* succeeded; slurm_client is never set while ssh_client is None.          *)
(***************************************************************************)
C18_SlurmClientImpliesSession ==
    slurm_client # NoSlurm =>
        /\ ssh_client # 0
        /\ slurm_client.ssh_client = ssh_client
        /\ ssh_client \in DOMAIN objs
        /\ objs[ssh_client].client \in 1..Len(handles)
        /\ handles[objs[ssh_client].client].connected
        /\ handles[objs[ssh_client].client].closes = 0

\* a session established by the second SSHClient the process constructed
C18_Witness ==
    /\ slurm_client # NoSlurm
    /\ slurm_client.ssh_client = ssh_client
    /\ Len(handles) = 2
    /\ handles[1].closes = 1
    /\ objs[ssh_client].client = 2

(***************************************************************************)
(* C19.  get_connection_status changes nothing: ssh_client, slurm_client,  *)
(* the SSHClient objects and the handles are after it what they were       *)
(* before, whatever its probe met; it reports "connected" only when the    *)
(* SSHClient held a handle and the probe returned exit code 0.             *)
(***************************************************************************)
C19_StatusChangesNothing ==
    [][ last'.op = "get_connection_status" =>
          /\ ssh_client' = ssh_client
          /\ slurm_client' = slurm_client
          /\ objs' = objs
          /\ handles' = handles
          /\ last'.connect = "none"
          /\ CallsOf(last', "connect") = {}
          /\ CallsOf(last', "close") = {}
          /\ (last'.ret.status = "connected") =>
                /\ ssh_client # 0
                /\ objs[ssh_client].client # 0
                /\ Returned(last')
                /\ ExecOut(last').exit_code = 0
                /\ ExecCommand(last') = "echo 'connection test'" ]_vars

\* the probe returned exit code 1: "disconnected" is reported and the
\* session is still in place
C19_Witness ==
    /\ last.op = "get_connection_status"
    /\ last.ret.status = "disconnected"
    /\ Returned(last)
    /\ ExecOut(last).exit_code = 1
    /\ Established
    /\ handles[objs[ssh_client].client].connected

(***************************************************************************)
(* C20.  A command that fails (nonzero exit code, timeout, transport       *)
(* failure) on an established session leaves ssh_client, slurm_client, the *)
(* SSHClient and its handle as they were, with no close and no connect;    *)
(* and the scheduler tool called right after the disconnect tool           *)
(* constructs a new SSHClient and handle and connects it.                  *)
(***************************************************************************)
C20_FailureKeepsSession ==
    [][ /\ ( /\ Established
             /\ last'.op \in SchedOps
             /\ last' # last
             /\ CallsOf(last', "exec_command") # {}
             /\ (ExecOut(last').kind # "returns" \/ ExecOut(last').exit_code # 0) )
           => /\ ssh_client' = ssh_client
              /\ slurm_client' = slurm_client
              /\ objs' = objs
              /\ handles' = handles
              /\ CallsOf(last', "close") = {}
              /\ CallsOf(last', "connect") = {}
              /\ ExecOut(last') = last'.calls[1].out
              /\ last'.calls[1].h = objs[ssh_client].client
              /\ last'.ret.status = "error"
        /\ ( /\ last.op = "disconnect"
             /\ last'.op \in SchedOps
             /\ get_connection_config(env).exc = NoExc )
           => /\ last'.connect \in {"ok", "failed"}
              /\ Len(handles') = Len(handles) + 1
              /\ objs'[ssh_client'].client = Len(handles')
              /\ last'.connect = "ok" =>
                    /\ slurm_client' = SlurmClient_init(ssh_client')
                    /\ \A i \in CallsOf(last', "exec_command") :
                           last'.calls[i].h = Len(handles')
      ]_vars

\* the transport failed under a command on an established session, and the
\* session is still in place
C20_Witness ==
    /\ last.op \in SchedOps
    /\ last.connect = "none"
    /\ CallsOf(last, "exec_command") # {}
    /\ ExecOut(last).kind = "ssh"
    /\ last.ret.status = "error"
    /\ Established
    /\ handles[objs[ssh_client].client].connected

====
